---------------------------- MODULE Spec2Model ----------------------------
(***************************************************************************)
(* Model of the analytics core of the investment planner                   *)
(* (src/Personal_proj.py) and of the trend forecaster (src/script.py).     *)
(*                                                                         *)
(* Every function of the core is pure.  A behaviour of Spec is one call:   *)
(* Init draws the function and its arguments from bounded sets, the        *)
(* function's action computes the result as the source computes it.  A     *)
(* behaviour of SpecCli is a run of run_cli_app on the lines of its        *)
(* standard input, one action for each stretch of the function between     *)
(* two reads or calls.                                                     *)
(*                                                                         *)
(* Numbers.  Under Spec and SpecCli Python floats are modelled by exact    *)
(* rationals <<n, d>> (d > 0, lowest terms) extended with the IEEE values  *)
(* the source can produce: [k |-> "fin" | "inf" | "ninf" | "nan",          *)
(* v |-> rational].  A finite value is then the exact value the float      *)
(* approximates, and where the source compares two floats (the ranking)    *)
(* the input grid is chosen so that the exact values are equal only when   *)
(* the floats are.  SpecBinary64 computes the ranking in IEEE 754 binary64 *)
(* instead, every operation rounded as Python rounds it, for the           *)
(* properties that depend on the rounding.                                 *)
(***************************************************************************)
EXTENDS Integers, Sequences, FiniteSets, TLC

VARIABLES pc, fn, arg, ret, stdin, stdout, locals

\* the console and the local variables of run_cli_app; the pure functions
\* leave them alone
cli == <<stdin, stdout, locals>>

vars == <<pc, fn, arg, ret, cli>>

-----------------------------------------------------------------------------
(* Bounds of the model *)

\* longest price series given to calculate_metrics
MaxLen == 3
\* prices are 1..MaxPrice
MaxPrice == 3
\* calendar years are 0..MaxYear
MaxYear == 2
\* horizons given to calculate_investment_needs are 1/2, 1, .. MaxHorizon years
MaxHorizon == 4
\* annual returns given to it are the quarters -MaxReturnQ/4 .. MaxReturnQ/4
MaxReturnQ == 12
\* most candidates ranked at once
MaxCandidates == 3
\* most rows of a frame given to linear_regression_forecast
MaxRows == 4
\* the dates of its rows are the days 1..MaxDate
MaxDate == 5
\* days (periods) asked of it are 1..MaxDays
MaxDays == 2

-----------------------------------------------------------------------------
(* Exact rationals *)

Abs(n) == IF n < 0 THEN -n ELSE n

RECURSIVE GCD(_, _)
GCD(a, b) == IF b = 0 THEN a ELSE GCD(b, a % b)

\* the rational n/d (d # 0) in lowest terms with a positive denominator
Rat(n, d) ==
    LET g == GCD(Abs(n), Abs(d))
        s == IF d < 0 THEN -1 ELSE 1
    IN  <<(s * n) \div g, (s * d) \div g>>

RInt(n) == <<n, 1>>
RAdd(a, b) == Rat(a[1] * b[2] + b[1] * a[2], a[2] * b[2])
RSub(a, b) == Rat(a[1] * b[2] - b[1] * a[2], a[2] * b[2])
RMul(a, b) == Rat(a[1] * b[1], a[2] * b[2])
\* b # 0
RDiv(a, b) == Rat(a[1] * b[2], a[2] * b[1])
RLt(a, b)  == a[1] * b[2] < b[1] * a[2]
RLe(a, b)  == a[1] * b[2] <= b[1] * a[2]
\* both in lowest terms
REq(a, b)  == a = b
RECURSIVE RSum(_)
RSum(s) == IF s = <<>> THEN RInt(0) ELSE RAdd(s[1], RSum(Tail(s)))

RSign(a)   == IF a[1] > 0 THEN 1 ELSE IF a[1] < 0 THEN -1 ELSE 0

-----------------------------------------------------------------------------
(* IEEE doubles as numpy.float64 computes with them: no operation raises,  *)
(* a division by zero gives an infinity or NaN, NaN propagates.            *)

Fin(q) == [k |-> "fin", v |-> q]
Inf    == [k |-> "inf", v |-> <<0, 1>>]
NInf   == [k |-> "ninf", v |-> <<0, 1>>]
NaN    == [k |-> "nan", v |-> <<0, 1>>]

IsNaN(x)    == x.k = "nan"
IsFinite(x) == x.k = "fin"

FSign(x) ==
    CASE x.k = "fin"  -> RSign(x.v)
      [] x.k = "inf"  -> 1
      [] x.k = "ninf" -> -1
      [] OTHER        -> 0

FOfSign(s) == IF s > 0 THEN Inf ELSE IF s < 0 THEN NInf ELSE NaN

FAbs(x) == CASE x.k = "fin"  -> Fin(<<Abs(x.v[1]), x.v[2]>>)
             [] x.k = "nan"  -> NaN
             [] OTHER        -> Inf

FAdd(x, y) ==
    CASE IsNaN(x) \/ IsNaN(y)           -> NaN
      [] IsFinite(x) /\ IsFinite(y)     -> Fin(RAdd(x.v, y.v))
      [] IsFinite(x)                    -> y
      [] IsFinite(y)                    -> x
      [] x.k = y.k                      -> x
      [] OTHER                          -> NaN

FNeg(x) == CASE x.k = "fin"  -> Fin(<<-x.v[1], x.v[2]>>)
             [] x.k = "inf"  -> NInf
             [] x.k = "ninf" -> Inf
             [] OTHER        -> NaN

FSub(x, y) == FAdd(x, FNeg(y))

FMul(x, y) ==
    CASE IsNaN(x) \/ IsNaN(y)           -> NaN
      [] IsFinite(x) /\ IsFinite(y)     -> Fin(RMul(x.v, y.v))
      [] OTHER                          -> FOfSign(FSign(x) * FSign(y))

\* x / y; the zero of the source's divisors is always +0.0 (abs(...), or a
\* difference x - x), so x / 0 has the sign of x
FDiv(x, y) ==
    CASE IsNaN(x) \/ IsNaN(y)           -> NaN
      [] IsFinite(y) /\ FSign(y) = 0    -> FOfSign(FSign(x))
      [] IsFinite(x) /\ IsFinite(y)     -> Fin(RDiv(x.v, y.v))
      [] IsFinite(x)                    -> Fin(<<0, 1>>)
      [] IsFinite(y)                    -> FOfSign(FSign(x) * FSign(y))
      [] OTHER                          -> NaN

\* the comparisons of IEEE: every comparison with NaN is false
FGt(x, y) ==
    CASE IsNaN(x) \/ IsNaN(y)           -> FALSE
      [] IsFinite(x) /\ IsFinite(y)     -> RLt(y.v, x.v)
      [] x.k = y.k                      -> FALSE
      [] OTHER                          -> x.k = "inf" \/ y.k = "ninf"

FEq(x, y) ==
    CASE IsNaN(x) \/ IsNaN(y)           -> FALSE
      [] IsFinite(x) /\ IsFinite(y)     -> REq(x.v, y.v)
      [] OTHER                          -> x.k = y.k

FGe(x, y) == FGt(x, y) \/ FEq(x, y)

-----------------------------------------------------------------------------
(* MetricsEngine: calculate_metrics(hist_data)                             *)
(*                                                                         *)
(* hist_data['Close'] is a sequence of points [year, Close] in timestamp   *)
(* order (years non-decreasing, several points may share a year).          *)

Closes(hist) == [i \in 1..Len(hist) |-> hist[i].Close]

RECURSIVE SeqMin(_)
SeqMin(s) == IF Len(s) = 1 THEN s[1]
             ELSE LET m == SeqMin(Tail(s)) IN IF s[1] < m THEN s[1] ELSE m

RECURSIVE SeqMax(_)
SeqMax(s) == IF Len(s) = 1 THEN s[1]
             ELSE LET m == SeqMax(Tail(s)) IN IF s[1] > m THEN s[1] ELSE m

\* a plausible slip: the first Close of each year instead of the last
resample_Y_first(hist) ==
    LET y0 == hist[1].year
        y1 == hist[Len(hist)].year
        InYear(y) == {j \in 1..Len(hist) : hist[j].year = y}
        FirstIn(y) == CHOOSE j \in InYear(y) : \A l \in InYear(y) : j <= l
    IN  [i \in 1..(y1 - y0 + 1) |->
            IF InYear(y0 + i - 1) = {} THEN NaN
            ELSE Fin(RInt(hist[FirstIn(y0 + i - 1)].Close))]

\* .resample('Y').last(): one bin per calendar year from the first point's
\* year to the last point's, holding the last Close observed in that year,
\* NaN for a year without a point
resample_Y_last(hist) ==
    LET y0 == hist[1].year
        y1 == hist[Len(hist)].year
        InYear(y) == {j \in 1..Len(hist) : hist[j].year = y}
        LastIn(y) == CHOOSE j \in InYear(y) : \A l \in InYear(y) : l <= j
    IN  [i \in 1..(y1 - y0 + 1) |->
            IF InYear(y0 + i - 1) = {} THEN NaN
            ELSE Fin(RInt(hist[LastIn(y0 + i - 1)].Close))]

\* fill_method='pad', the default of pct_change: a NaN takes the last value
\* before it
ffill(s) ==
    [i \in 1..Len(s) |->
        LET Seen == {j \in 1..i : ~IsNaN(s[j])}
        IN  IF Seen = {} THEN NaN
            ELSE s[CHOOSE j \in Seen : \A l \in Seen : l <= j]]

\* Series.pct_change(): filled / filled.shift(1) - 1, the first entry NaN
pct_change(s) ==
    LET f == ffill(s)
    IN  [i \in 1..Len(s) |->
            IF i = 1 THEN NaN
            ELSE FSub(FDiv(f[i], f[i - 1]), Fin(RInt(1)))]

\* the entries pandas' reductions keep: skipna=True
dropna_values(s) == SelectSeq(s, LAMBDA x : ~IsNaN(x))

RECURSIVE FSum(_)
FSum(s) == IF s = <<>> THEN Fin(RInt(0)) ELSE FAdd(s[1], FSum(Tail(s)))

\* Series.mean(): NaN for no value
mean(s) ==
    LET xs == dropna_values(s)
    IN  IF xs = <<>> THEN NaN ELSE FDiv(FSum(xs), Fin(RInt(Len(xs))))

\* the sample variance (ddof=1) whose square root Series.std() returns
variance(s) ==
    LET xs == dropna_values(s)
        m  == mean(s)
        sq == [i \in 1..Len(xs) |-> FMul(FSub(xs[i], m), FSub(xs[i], m))]
    IN  FDiv(FSum(sq), Fin(RInt(Len(xs) - 1)))

\* Series.std(): NaN for fewer than 2 values; otherwise the square root of
\* the variance, kept as [k |-> "sqrt", v |-> variance] since it need not be
\* rational
std(s) ==
    IF Len(dropna_values(s)) < 2 THEN NaN
    ELSE [k |-> "sqrt", v |-> variance(s).v]

\* a plausible slip: the drop measured against the minimum
max_drawdown_over_min(hist) ==
    LET lo == SeqMin(Closes(hist))
        hi == SeqMax(Closes(hist))
    IN  Fin(Rat(lo - hi, lo))

\* (Close.min() - Close.max()) / Close.max()
max_drawdown(hist) ==
    LET lo == SeqMin(Closes(hist))
        hi == SeqMax(Closes(hist))
    IN  FDiv(Fin(RInt(lo - hi)), Fin(RInt(hi)))

annual_returns(hist) == pct_change(resample_Y_last(hist))

calculate_metrics(hist) ==
    [status            |-> "ok",
     avg_annual_return |-> mean(annual_returns(hist)),
     volatility        |-> std(annual_returns(hist)),
     max_drawdown      |-> max_drawdown(hist),
     current_price     |-> Fin(RInt(hist[Len(hist)].Close))]

\* the price series of the model: 1..MaxLen points, prices > 0, timestamps
\* increasing (so years non-decreasing)
Points == [year : 0..MaxYear, Close : 1..MaxPrice]

PriceSeries ==
    {s \in UNION {[1..n -> Points] : n \in 1..MaxLen} :
        \A i \in 1..(Len(s) - 1) : s[i].year <= s[i + 1].year}


-----------------------------------------------------------------------------
(* ContributionPlanner: calculate_investment_needs(goal_amount, years,     *)
(* annual_return)                                                          *)
(*                                                                         *)
(* rtype is the type of annual_return, which decides the arithmetic of the *)
(* whole expression: "float" (a Python float or int, as a direct caller    *)
(* passes) raises ZeroDivisionError on a division by zero and gives a      *)
(* complex number for a negative base with a non-integer exponent;         *)
(* "numpy.float64" (what calculate_metrics returns and the two apps pass)  *)
(* gives an infinity or NaN instead.                                       *)

Complex == [k |-> "complex", v |-> <<0, 1>>]

RECURSIVE RPow(_, _)
RPow(b, n) == IF n = 0 THEN RInt(1) ELSE RMul(b, RPow(b, n - 1))

IsSquare(n) == \E x \in 0..n : x * x = n
ISqrt(n)    == CHOOSE x \in 0..n : x * x = n

\* the bases whose square root is rational
HasRSqrt(q) == q[1] >= 0 /\ IsSquare(q[1]) /\ IsSquare(q[2])
RSqrt(q)    == <<ISqrt(q[1]), ISqrt(q[2])>>

\* base ** years for years = n or n/2 (n odd)
pow(base, years, rtype) ==
    IF years[2] = 1 THEN Fin(RPow(base, years[1]))
    ELSE IF RSign(base) < 0
         THEN (IF rtype = "float" THEN Complex ELSE NaN)
         ELSE Fin(RPow(RSqrt(base), years[1]))

\* a plausible slip: the factor r left out of the annuity formula
yearly_without_r(goal_amount, denominator, r) ==
    FDiv(Fin(RInt(goal_amount)), denominator)

\* goal_amount / ((1 + r) ** n_years - 1) * r
yearly_investment(goal_amount, denominator, r) ==
    FMul(FDiv(Fin(RInt(goal_amount)), denominator), Fin(r))

calculate_investment_needs(goal_amount, years, annual_return, rtype) ==
    LET r       == annual_return
        n_years == years
        power   == pow(RAdd(RInt(1), r), n_years, rtype)
        denom   == FSub(power, Fin(RInt(1)))
        yearly  == yearly_investment(goal_amount, denom, r)
    IN  IF power.k = "complex"
        THEN [status |-> "ok", yearly |-> Complex, monthly |-> Complex,
              weekly |-> Complex]
        ELSE IF rtype = "float" /\ IsFinite(denom) /\ FSign(denom) = 0
        THEN [status |-> "ZeroDivisionError", yearly |-> NaN, monthly |-> NaN,
              weekly |-> NaN]
        ELSE [status  |-> "ok",
              yearly  |-> yearly,
              monthly |-> FDiv(yearly, Fin(RInt(12))),
              weekly  |-> FDiv(yearly, Fin(RInt(52)))]

GoalAmounts == {1, 1000}
Horizons    == {Rat(h, 2) : h \in 1..(2 * MaxHorizon)}
Returns     == {Rat(q, 4) : q \in (-MaxReturnQ)..MaxReturnQ}
RTypes      == {"float", "numpy.float64"}

\* the calls whose power the model computes exactly: an integer horizon, a
\* negative base, or a base with a rational square root
PlanArgs ==
    {a \in [goal_amount : GoalAmounts, years : Horizons,
            annual_return : Returns, rtype : RTypes] :
        \/ a.years[2] = 1
        \/ RSign(RAdd(RInt(1), a.annual_return)) < 0
        \/ HasRSqrt(RAdd(RInt(1), a.annual_return))}

-----------------------------------------------------------------------------
(* RecommendationRanker: get_index_score and the max over index_scores of  *)
(* run_streamlit_app and run_cli_app.  The metrics are numpy.float64       *)
(* (calculate_metrics made them), so no operation raises.                  *)

\* INDICES, in the order the dict holds its keys
INDICES == <<"S&P 500", "Nasdaq", "Dow Jones", "Russell 2000">>

\* the code of each name's first character: the four differ, so it decides
\* the lexical order of the names
FirstChar(name) ==
    CASE name = "S&P 500"      -> 83
      [] name = "Nasdaq"       -> 78
      [] name = "Dow Jones"    -> 68
      [] name = "Russell 2000" -> 82

LexLess(a, b) == FirstChar(a) < FirstChar(b)

\* years > 10
HorizonThreshold == 10

get_index_score(metrics, years) ==
    FMul(FAdd(FAdd(FMul(metrics.avg_annual_return, Fin(<<2, 5>>)),
                   FMul(FDiv(Fin(RInt(1)), FAbs(metrics.volatility)), Fin(<<3, 10>>))),
              FMul(FDiv(Fin(RInt(1)), FAbs(metrics.max_drawdown)), Fin(<<3, 10>>))),
         IF RLt(RInt(HorizonThreshold), years) THEN Fin(RInt(1)) ELSE Fin(<<4, 5>>))

\* {name: get_index_score(metrics, years) for name, metrics in index_metrics.items()}
index_scores(index_metrics, years) ==
    [i \in 1..Len(index_metrics) |-> get_index_score(index_metrics[i].metrics, years)]

RECURSIVE max_from(_, _, _)
max_from(scores, i, best) ==
    IF i > Len(scores) THEN best
    ELSE max_from(scores, i + 1, IF FGt(scores[i], scores[best]) THEN i ELSE best)

\* max(index_scores, key=index_scores.get): the keys in insertion order, the
\* first one kept until a later one's score is greater (>)
py_max(scores) == max_from(scores, 2, 1)

\* a plausible change: a score that is not a finite number is refused
recommend_finite_only(index_metrics, years) ==
    LET scores == index_scores(index_metrics, years)
    IN  IF \E i \in 1..Len(scores) : ~IsFinite(scores[i])
        THEN [status |-> "DivisionUndefined", recommended_index |-> "None",
              index_scores |-> scores]
        ELSE [status            |-> "ok",
              recommended_index |-> index_metrics[py_max(scores)].name,
              index_scores      |-> scores]

\* index_scores = {...}; recommended_index = max(index_scores, key=index_scores.get)
recommend(index_metrics, years) ==
    LET scores == index_scores(index_metrics, years)
    IN  [status            |-> "ok",
         recommended_index |-> index_metrics[py_max(scores)].name,
         index_scores      |-> scores]

\* the metrics of a candidate: two returns, and a risk that is ordinary, has
\* volatility 0, has max_drawdown 0 or has an undefined volatility; on this
\* grid two scores are equal only for equal metrics or when both are infinite
CandidateMetrics ==
    {[avg_annual_return |-> a, volatility |-> r[1], max_drawdown |-> r[2]] :
        a \in {Fin(<<-1, 2>>), Fin(<<1, 2>>)},
        r \in {<<Fin(<<1, 2>>), Fin(<<-1, 2>>)>>,
               <<Fin(RInt(0)), Fin(<<-1, 2>>)>>,
               <<Fin(<<1, 2>>), Fin(RInt(0))>>,
               <<NaN, Fin(<<-1, 2>>)>>}}

Names == {INDICES[i] : i \in 1..Len(INDICES)}

\* the orders in which n of the names can be supplied
NameOrders(n) ==
    {s \in [1..n -> Names] : \A i, j \in 1..n : i # j => s[i] # s[j]}

\* index_metrics: the candidates in the order of their names
Candidates(names, metrics) ==
    [i \in 1..Len(names) |-> [name |-> names[i], metrics |-> metrics[i]]]

\* years_to_goal either side of the threshold, and on it
GoalYears == {RInt(5), RInt(HorizonThreshold), RInt(HorizonThreshold + 1)}

-----------------------------------------------------------------------------
(* TrendForecaster: linear_regression_forecast(df, days) of src/script.py  *)
(*                                                                         *)
(* df is a frame: a sequence of rows in date order, each row a record of   *)
(* its columns.  A price series has the columns Date and Price, the dates  *)
(* day numbers with any spacing, a missing price NaN.  The dashboard of    *)
(* script.py passes the frame calculate_returns made of a price series,    *)
(* with a third column Return.                                             *)

\* calculate_returns(df): the column Return = Price.pct_change() added
calculate_returns(df) ==
    LET Return == pct_change([i \in 1..Len(df) |-> df[i].Price])
    IN  [i \in 1..Len(df) |->
            [Date |-> df[i].Date, Price |-> df[i].Price, Return |-> Return[i]]]

\* df.dropna(): the rows without a missing value in any column; a Date is a
\* day number, never missing
dropna(df) ==
    SelectSeq(df, LAMBDA row :
                      \A column \in DOMAIN row \ {"Date"} : ~IsNaN(row[column]))

\* len(df) < 2
too_short(df) == Len(df) < 2

\* LinearRegression().fit(X, y) on X = Days = 0..n-1 and y = Price: the data
\* centred on their means, coef_ = sum (x - mx)(y - my) / sum (x - mx)^2 and
\* intercept_ = my - coef_ * mx
fit(df) ==
    LET n   == Len(df)
        X   == [i \in 1..n |-> RInt(i - 1)]
        y   == [i \in 1..n |-> df[i].Price.v]
        mx  == RDiv(RSum(X), RInt(n))
        my  == RDiv(RSum(y), RInt(n))
        sxy == RSum([i \in 1..n |-> RMul(RSub(X[i], mx), RSub(y[i], my))])
        sxx == RSum([i \in 1..n |-> RMul(RSub(X[i], mx), RSub(X[i], mx))])
        coef == RDiv(sxy, sxx)
    IN  [coef_ |-> coef, intercept_ |-> RSub(my, RMul(coef, mx))]

\* model.predict(x)
predict(model, x) == RAdd(model.intercept_, RMul(model.coef_, RInt(x)))

\* np.arange(len(df), len(df) + days)
future_days(n, days) == [j \in 1..days |-> n + j - 1]

\* pd.date_range(start=last Date + 1 day, periods=days): one date a day
future_dates(last, days) == [j \in 1..days |-> last + j]

linear_regression_forecast(df0, days) ==
    LET df == dropna(df0)
    IN  IF too_short(df) THEN [status |-> "ok", forecast |-> <<>>]
        ELSE LET model == fit(df)
                 xs    == future_days(Len(df), days)
                 ds    == future_dates(df[Len(df)].Date, days)
             IN  [status   |-> "ok",
                  forecast |-> [j \in 1..days |->
                                  [Date            |-> ds[j],
                                   Predicted_Price |-> Fin(predict(model, xs[j]))]]]

FramePrices == {NaN} \cup {Fin(RInt(p)) : p \in 1..MaxPrice}

\* the frame with the dates of D, in order, and the given prices
Frame(D, prices) ==
    [i \in 1..Cardinality(D) |->
        [Date  |-> CHOOSE d \in D : Cardinality({e \in D : e <= d}) = i,
         Price |-> prices[i]]]

\* the dates of a frame: 0..MaxRows days of 1..MaxDate, any spacing
DateSets == {D \in SUBSET (1..MaxDate) : Cardinality(D) <= MaxRows}

\* the example of the spec: 10, 12, 14, 16, 18 on consecutive days
ExampleFrame == [i \in 1..5 |-> [Date |-> i, Price |-> Fin(RInt(8 + 2 * i))]]

-----------------------------------------------------------------------------
(* One call of one function *)

Pending == [status |-> "pending"]

\* the locals of run_cli_app: the names assigned so far, with their values
NoLocals == <<>>

Bound(l, name) == name \in DOMAIN l

\* name = value
Assign(l, name, value) == (name :> value) @@ l

Init ==
    /\ pc = "call"
    /\ ret = Pending
    /\ stdin = <<>>
    /\ stdout = <<>>
    /\ locals = NoLocals
    /\ \/ /\ fn = "calculate_metrics"
          /\ arg \in [hist_data : PriceSeries]
       \/ /\ fn = "calculate_investment_needs"
          /\ arg \in PlanArgs
       \/ /\ fn = "recommend"
          /\ \E n \in 1..MaxCandidates :
               \E names \in NameOrders(n), metrics \in [1..n -> CandidateMetrics] :
                   arg \in [index_metrics : {Candidates(names, metrics)},
                            years : GoalYears]
       \/ /\ fn = "linear_regression_forecast"
          /\ \/ \E D \in DateSets :
                  \E prices \in [1..Cardinality(D) -> FramePrices] :
                      arg \in [df : {Frame(D, prices),
                                     calculate_returns(Frame(D, prices))},
                               days : 1..MaxDays]
             \/ arg \in [df : {ExampleFrame, calculate_returns(ExampleFrame)},
                          days : {2}]

CalculateMetrics ==
    /\ pc = "call"
    /\ fn = "calculate_metrics"
    /\ ret' = calculate_metrics(arg.hist_data)
    /\ pc' = "done"
    /\ UNCHANGED <<fn, arg, cli>>

CalculateInvestmentNeeds ==
    /\ pc = "call"
    /\ fn = "calculate_investment_needs"
    /\ ret' = calculate_investment_needs(arg.goal_amount, arg.years,
                                         arg.annual_return, arg.rtype)
    /\ pc' = "done"
    /\ UNCHANGED <<fn, arg, cli>>

\* lines 193-203 of run_cli_app (79-89 of run_streamlit_app)
Recommend ==
    /\ pc = "call"
    /\ fn = "recommend"
    /\ ret' = recommend(arg.index_metrics, arg.years)
    /\ pc' = "done"
    /\ UNCHANGED <<fn, arg, cli>>

LinearRegressionForecast ==
    /\ pc = "call"
    /\ fn = "linear_regression_forecast"
    /\ ret' = linear_regression_forecast(arg.df, arg.days)
    /\ pc' = "done"
    /\ UNCHANGED <<fn, arg, cli>>

Next ==
    \/ CalculateMetrics
    \/ CalculateInvestmentNeeds
    \/ Recommend
    \/ LinearRegressionForecast

Spec == Init /\ [][Next]_vars

-----------------------------------------------------------------------------
(* run_cli_app: the command-line planner (src/Personal_proj.py 165-225)    *)
(*                                                                         *)
(* A line of standard input is text that is neither a number nor a date,   *)
(* a number, or a date written YYYY-MM-DD.  A date is held as the number   *)
(* of days from datetime.now().date() to it; the run does not cross        *)
(* midnight, so that every call of datetime.now().date() gives the same    *)
(* day.  The market data get_historical_data downloads is an input: one    *)
(* history per index.  stdout keeps what the target-date loop prints.      *)

MaxLines == 3

\* timedelta(days=365)
OneYear == 365

\* 365.25
DaysPerYear == <<1461, 4>>

Text      == [kind |-> "text"]
Number(n) == [kind |-> "number", v |-> n]
Date(d)   == [kind |-> "date", day |-> d]

\* float(line): ValueError unless the line is a number
float(line) ==
    IF line.kind = "number" THEN [status |-> "ok", v |-> line.v]
    ELSE [status |-> "ValueError"]

\* datetime.strptime(line, "%Y-%m-%d").date(): ValueError unless the line
\* is a date
strptime(line) ==
    IF line.kind = "date" THEN [status |-> "ok", date |-> line.day]
    ELSE [status |-> "ValueError"]

TooSoonMessage == "Please enter a date at least 1 year in the future."
InvalidMessage == "Invalid date format. Please use YYYY-MM-DD format."

\* goal_date <= datetime.now().date() + timedelta(days=365)
too_soon(goal_date) == goal_date <= OneYear

\* (goal_date - datetime.now().date()).days / 365.25
years_to_goal(goal_date) == RDiv(RInt(goal_date), DaysPerYear)

\* the float a standard deviation is: the model's histories have variances
\* with a rational square root
std_value(x) == IF x.k = "sqrt" THEN Fin(RSqrt(x.v)) ELSE x

\* index_metrics[index_name] = calculate_metrics(hist_data), for every index
\* in the order of INDICES
fetch_and_analyze(market) ==
    [i \in 1..Len(INDICES) |->
        LET m == calculate_metrics(market[i])
        IN  [name    |-> INDICES[i],
             metrics |-> [m EXCEPT !.volatility = std_value(m.volatility)]]]

\* calculate_investment_needs(goal_amount, years_to_goal,
\* metrics['avg_annual_return']) with the numpy.float64 the metrics hold
investment_needs(goal_amount, years, avg_annual_return) ==
    IF IsNaN(avg_annual_return)
    THEN [status |-> "ok", yearly |-> NaN, monthly |-> NaN, weekly |-> NaN]
    ELSE calculate_investment_needs(goal_amount, years, avg_annual_return.v,
                                    "numpy.float64")

\* the lines a user types: text, a goal amount, and dates less than a year,
\* exactly a year and a whole number of 365.25-day years (4 and 12) ahead
Lines ==
    {Text, Number(1000)}
        \cup {Date(d) : d \in {OneYear - 1, OneYear, 4 * OneYear + 1,
                               12 * OneYear + 3}}

Stdins == UNION {[1..n -> Lines] : n \in 0..MaxLines}

\* yearly closes: one return only (volatility NaN); returns 0, 1/2, 1;
\* returns 1, 2, 3
Histories ==
    {<<[year |-> 0, Close |-> 1], [year |-> 1, Close |-> 2]>>,
     <<[year |-> 0, Close |-> 4], [year |-> 1, Close |-> 4],
       [year |-> 2, Close |-> 6], [year |-> 3, Close |-> 12]>>,
     <<[year |-> 0, Close |-> 1], [year |-> 1, Close |-> 2],
       [year |-> 2, Close |-> 6], [year |-> 3, Close |-> 24]>>}

\* one history per index; the last two indices share the first's
Markets ==
    {m \in [1..Len(INDICES) -> Histories] : m[3] = m[1] /\ m[4] = m[1]}

InitCli ==
    /\ pc = "call"
    /\ fn = "run_cli_app"
    /\ ret = Pending
    /\ arg \in [stdin : Stdins, market : Markets]
    /\ stdin = arg.stdin
    /\ stdout = <<>>
    /\ locals = NoLocals

\* an exception no handler catches ends the program
Raise(exception) ==
    /\ pc' = "raised"
    /\ ret' = [status |-> exception]

\* line 169: goal_amount = float(input(...))
ReadGoalAmount ==
    /\ pc = "call"
    /\ fn = "run_cli_app"
    /\ IF stdin = <<>>
       THEN Raise("EOFError") /\ UNCHANGED <<stdin, locals>>
       ELSE /\ stdin' = Tail(stdin)
            /\ IF float(Head(stdin)).status = "ok"
               THEN /\ locals' = Assign(locals, "goal_amount", float(Head(stdin)).v)
                    /\ pc' = "prompt"
                    /\ ret' = ret
               ELSE Raise("ValueError") /\ UNCHANGED locals
    /\ UNCHANGED <<fn, arg, stdout>>

\* lines 170-179: one turn of the while True loop
ReadTargetDate ==
    /\ pc = "prompt"
    /\ fn = "run_cli_app"
    /\ IF stdin = <<>>
       THEN Raise("EOFError") /\ UNCHANGED <<stdin, stdout, locals>>
       ELSE LET goal_date == strptime(Head(stdin))
            IN  /\ stdin' = Tail(stdin)
                /\ ret' = ret
                /\ IF goal_date.status = "ValueError"
                   THEN /\ stdout' = Append(stdout, InvalidMessage)
                        /\ pc' = "prompt"
                        /\ UNCHANGED locals
                   ELSE /\ locals' = Assign(locals, "goal_date", goal_date.date)
                        /\ IF too_soon(goal_date.date)
                           THEN /\ stdout' = Append(stdout, TooSoonMessage)
                                /\ pc' = "prompt"
                           ELSE /\ stdout' = stdout
                                /\ pc' = "analyze"
    /\ UNCHANGED <<fn, arg>>

\* lines 182-190: years_to_goal and the metrics of every index
FetchAndAnalyze ==
    /\ pc = "analyze"
    /\ fn = "run_cli_app"
    /\ locals' = Assign(Assign(locals, "years_to_goal",
                               years_to_goal(locals.goal_date)),
                        "index_metrics", fetch_and_analyze(arg.market))
    /\ pc' = "score"
    /\ UNCHANGED <<fn, arg, ret, stdin, stdout>>

\* lines 193-204: the scores and the recommended index
FindBestIndex ==
    /\ pc = "score"
    /\ fn = "run_cli_app"
    /\ locals' = Assign(locals, "recommended_index",
                        recommend(locals.index_metrics,
                                  locals.years_to_goal).recommended_index)
    /\ pc' = "plan"
    /\ UNCHANGED <<fn, arg, ret, stdin, stdout>>

\* lines 206-225: the call of calculate_investment_needs and the report
CalculateNeeds ==
    /\ pc = "plan"
    /\ fn = "run_cli_app"
    /\ LET best    == CHOOSE i \in 1..Len(INDICES) :
                          INDICES[i] = locals.recommended_index
           metrics == locals.index_metrics[best].metrics
           needs   == investment_needs(locals.goal_amount, locals.years_to_goal,
                                       metrics.avg_annual_return)
       IN  /\ locals' = Assign(locals, "investment_needs", needs)
           /\ ret' = [status            |-> "ok",
                      recommended_index |-> locals.recommended_index,
                      goal_date         |-> locals.goal_date,
                      investment_needs  |-> needs]
    /\ pc' = "done"
    /\ UNCHANGED <<fn, arg, stdin, stdout>>

NextCli ==
    \/ ReadGoalAmount
    \/ ReadTargetDate
    \/ FetchAndAnalyze
    \/ FindBestIndex
    \/ CalculateNeeds

SpecCli == InitCli /\ [][NextCli]_vars

-----------------------------------------------------------------------------
(* The ranking in binary64                                                 *)
(*                                                                         *)
(* The scores are Python floats (numpy.float64): IEEE 754 binary64, every  *)
(* operation rounded to the nearest value of 53 significant bits, ties to  *)
(* the even one.  The sections above compute with the exact values; this   *)
(* one computes get_index_score and the max over the scores bit for bit,   *)
(* for what depends on the rounding.                                       *)
(*                                                                         *)
(* A natural number is a sequence of limbs in base 2^13, least significant *)
(* first, the last limb not 0; <<>> is 0.  A binary64 is                   *)
(* [k |-> "fin", s, m, e], of value s * m * 2^e with s the sign (1 or -1)  *)
(* and m = 0 or 2^52 <= m < 2^53, or an infinity [k |-> "inf", s] or       *)
(* [k |-> "nan"].  The exponent is not bounded: the values of the model    *)
(* stay far from the overflow and underflow thresholds.                    *)

Base == 2 ^ 13

LimbBits == CHOOSE k \in 1..30 : 2 ^ k = Base

\* the significant bits of a binary64
Precision == 53

\* F of the value of e, and of the values of e1 and e2: an intermediate
\* result is computed once, however many times F uses it
With(e, F(_)) == CHOOSE r \in {F(v) : v \in {e}} : TRUE

With2(e1, e2, F(_, _)) == CHOOSE r \in {F(v, w) : v \in {e1}, w \in {e2}} : TRUE

\* the limb i of a, 0 beyond its last limb
Limb(a, i) == IF i >= 1 /\ i <= Len(a) THEN a[i] ELSE 0

\* the sequence of the n limbs f[1], ..., f[n]
Limbs(n, f) == SubSeq(f, 1, n)

\* the number of limbs of a up to its last limb that is not 0
BLen(a) ==
    IF \A i \in 1..Len(a) : a[i] = 0 THEN 0
    ELSE CHOOSE i \in 1..Len(a) :
             a[i] # 0 /\ \A j \in (i + 1)..Len(a) : a[j] = 0

\* x without its leading limbs that are 0
BNorm(x) == With(x, LAMBDA a : SubSeq(a, 1, BLen(a)))

\* an integer 0 <= n < 2^31
BOfInt(n) ==
    BNorm(<<n % Base, (n \div Base) % Base, n \div (Base * Base)>>)

BMaxLen(a, b) == IF Len(a) < Len(b) THEN Len(b) ELSE Len(a)

\* the carry of a + b into limb i: a lower limb overflows and every limb
\* between passes the carry on
Carry(a, b, i) ==
    IF \E j \in 1..(i - 1) :
           /\ Limb(a, j) + Limb(b, j) >= Base
           /\ \A k \in (j + 1)..(i - 1) : Limb(a, k) + Limb(b, k) = Base - 1
    THEN 1 ELSE 0

BAdd(x, y) ==
    With2(x, y, LAMBDA a, b :
        BNorm(Limbs(BMaxLen(a, b) + 1,
                    [i \in 1..(BMaxLen(a, b) + 1) |->
                        (Limb(a, i) + Limb(b, i) + Carry(a, b, i)) % Base])))

\* the borrow of a - b from limb i
Borrow(a, b, i) ==
    IF \E j \in 1..(i - 1) :
           /\ Limb(a, j) < Limb(b, j)
           /\ \A k \in (j + 1)..(i - 1) : Limb(a, k) = Limb(b, k)
    THEN 1 ELSE 0

\* x - y for x >= y
BSub(x, y) ==
    With2(x, y, LAMBDA a, b :
        BNorm(Limbs(Len(a),
                    [i \in 1..Len(a) |->
                        (Limb(a, i) - Limb(b, i) - Borrow(a, b, i) + Base)
                            % Base])))

BLess(a, b) ==
    \E i \in 1..BMaxLen(a, b) :
        /\ Limb(a, i) < Limb(b, i)
        /\ \A k \in (i + 1)..BMaxLen(a, b) : Limb(a, k) = Limb(b, k)

\* the sum of the products of limbs that make the limb k of a * b, for a of
\* at most 5 limbs (a significand has 5)
Column(a, b, k) ==
    Limb(a, 1) * Limb(b, k) + Limb(a, 2) * Limb(b, k - 1)
        + Limb(a, 3) * Limb(b, k - 2) + Limb(a, 4) * Limb(b, k - 3)
        + Limb(a, 5) * Limb(b, k - 4)

\* the columns col of a product, carried: each is split into three limbs
Carried(col) ==
    LET n   == Len(col)
        lo  == Limbs(n, [k \in 1..n |-> col[k] % Base])
        mid == Limbs(n + 1, [k \in 1..(n + 1) |->
                   IF k = 1 THEN 0 ELSE (col[k - 1] \div Base) % Base])
        hi  == Limbs(n + 2, [k \in 1..(n + 2) |->
                   IF k <= 2 THEN 0 ELSE col[k - 2] \div (Base * Base)])
    IN  BAdd(BAdd(lo, mid), hi)

\* x * y for x of at most 5 limbs
BMul(x, y) ==
    With2(x, y, LAMBDA a, b :
        With(Limbs(Len(a) + Len(b),
                   [k \in 1..(Len(a) + Len(b)) |-> Column(a, b, k)]),
             Carried))

\* the number of bits of a limb
Bits(n) == CHOOSE j \in 0..LimbBits : 2 ^ j > n /\ (j = 0 \/ 2 ^ (j - 1) <= n)

BitLen(a) ==
    IF a = <<>> THEN 0 ELSE (Len(a) - 1) * LimbBits + Bits(a[Len(a)])

\* 2^k
BPow2(k) ==
    Limbs(k \div LimbBits + 1,
          [i \in 1..(k \div LimbBits + 1) |->
              IF i = k \div LimbBits + 1 THEN 2 ^ (k % LimbBits) ELSE 0])

\* x * 2^k
BShl(x, k) ==
    With2(x, k, LAMBDA a, n :
        LET w == n \div LimbBits
            b == 2 ^ (n % LimbBits)
        IN  BNorm(Limbs(Len(a) + w + 1,
                        [i \in 1..(Len(a) + w + 1) |->
                            (Limb(a, i - w) % (Base \div b)) * b
                                + Limb(a, i - w - 1) \div (Base \div b)])))

\* the quotient of x by 2^k
BShr(x, k) ==
    With2(x, k, LAMBDA a, n :
        LET w == n \div LimbBits
            b == 2 ^ (n % LimbBits)
        IN  BNorm(Limbs(IF Len(a) < w THEN 0 ELSE Len(a) - w,
                        [i \in 1..(Len(a) - w) |->
                            Limb(a, i + w) \div b
                                + (Limb(a, i + w + 1) % b) * (Base \div b)])))

\* t * d for a limb t: the products of t and the limbs of d, split into two
\* limbs each
BScale(t, d) ==
    BAdd(Limbs(Len(d), [i \in 1..Len(d) |-> (t * d[i]) % Base]),
         Limbs(Len(d) + 1, [i \in 1..(Len(d) + 1) |->
                               IF i = 1 THEN 0 ELSE (t * d[i - 1]) \div Base]))

\* the quotient limb top, or the one or two below it, whose product p with d
\* is at most r; r1 is r + d
Corrected(r, d, top, p, r1) ==
    IF ~BLess(r, p) THEN [q |-> top, r |-> BSub(r, p)]
    ELSE IF ~BLess(r1, p) THEN [q |-> top - 1, r |-> BSub(r1, p)]
    ELSE [q |-> top - 2, r |-> BSub(BAdd(r1, d), p)]

\* the quotient (a limb) and the remainder of r by d, for r < d * Base and a
\* d whose last limb has all its bits: the quotient of the leading limbs is
\* the quotient or at most 2 more
DivLimb(r, d) ==
    LET n   == Len(d)
        est == (Limb(r, n + 1) * Base + Limb(r, n)) \div d[n]
        top == IF est < Base THEN est ELSE Base - 1
    IN  With2(BScale(top, d), BAdd(r, d),
              LAMBDA p, r1 : Corrected(r, d, top, p, r1))

\* a step of the long division of n by d: the limb i of n is brought down
\* to the remainder h.r of the limbs above it, and gives a limb of the
\* quotient
DivStep(h, n, d, i) ==
    With(BNorm(<<n[i]>> \o h.r), LAMBDA r :
        With(DivLimb(r, d), LAMBDA l : [q |-> <<l.q>> \o h.q, r |-> l.r]))

\* long division of n by d from the limb i down, h being the quotient and
\* the remainder of the limbs above i
RECURSIVE BDivFrom(_, _, _, _)
BDivFrom(n, d, i, h) ==
    IF i < 1 THEN h
    ELSE CHOOSE r \in {BDivFrom(n, d, j, next) :
                          j \in {i - 1}, next \in {DivStep(h, n, d, i)}} : TRUE

\* the quotient and the remainder of x by y > 0: both are shifted to give
\* the last limb of y all its bits
BDivMod(x, y) ==
    LET shift == LimbBits - Bits(y[Len(y)])
    IN  With2(BShl(x, shift), BShl(y, shift), LAMBDA n, d :
            LET k == Len(n) - Len(d) + 1
            IN  With(BDivFrom(n, d, k,
                              [q |-> <<>>,
                               r |-> IF k < 1 THEN n
                                     ELSE BNorm(SubSeq(n, k + 1, Len(n)))]),
                     LAMBDA h : [q |-> BNorm(h.q), r |-> BShr(h.r, shift)]))

B64Zero(s) == [k |-> "fin", s |-> s, m |-> <<>>, e |-> 0]
B64Inf(s)  == [k |-> "inf", s |-> s, m |-> <<>>, e |-> 0]
B64NaN     == [k |-> "nan", s |-> 1, m |-> <<>>, e |-> 0]

B64IsFinite(x) == x.k = "fin"
B64IsZero(x)   == x.k = "fin" /\ x.m = <<>>

\* s * n * 2^e for an n of more than Precision bits, q being its leading
\* Precision bits and r the rest: q is the significand, or q + 1 when r is
\* more than half a unit of q, or half of it and q is odd
RoundUp(s, q, r, e, cut) ==
    LET half == BPow2(cut - 1)
    IN  IF BLess(half, r) \/ (r = half /\ q[1] % 2 = 1)
        THEN IF BAdd(q, <<1>>) = BPow2(Precision)
             THEN [k |-> "fin", s |-> s, m |-> BPow2(Precision - 1),
                   e |-> e + cut + 1]
             ELSE [k |-> "fin", s |-> s, m |-> BAdd(q, <<1>>), e |-> e + cut]
        ELSE [k |-> "fin", s |-> s, m |-> q, e |-> e + cut]

\* the binary64 nearest to s * x * 2^e for x > 0, ties to the even
\* significand
round(s, x, e) ==
    With(x, LAMBDA n :
        With(BitLen(n), LAMBDA len :
            IF len <= Precision
            THEN [k |-> "fin", s |-> s, m |-> BShl(n, Precision - len),
                  e |-> e - (Precision - len)]
            ELSE With(BShr(n, len - Precision), LAMBDA q :
                     With(BSub(n, BShl(q, len - Precision)), LAMBDA r :
                         RoundUp(s, q, r, e, len - Precision)))))

\* float(n) of an integer n
B64Int(n) ==
    IF n = 0 THEN B64Zero(1)
    ELSE round(IF n < 0 THEN -1 ELSE 1, BOfInt(Abs(n)), 0)

B64Abs(x) == [x EXCEPT !.s = 1]

B64Mul(x0, y0) ==
    With2(x0, y0, LAMBDA x, y :
        CASE x.k = "nan" \/ y.k = "nan" -> B64NaN
          [] x.k = "inf" \/ y.k = "inf" ->
                 IF B64IsZero(x) \/ B64IsZero(y) THEN B64NaN
                 ELSE B64Inf(x.s * y.s)
          [] B64IsZero(x) \/ B64IsZero(y) -> B64Zero(x.s * y.s)
          [] OTHER -> round(x.s * y.s, BMul(x.m, y.m), x.e + y.e))

\* the quotient d of the significands to Precision + 3 bits and more,
\* doubled, with a last bit that says whether anything is left over
Sticky(d) == BAdd(BAdd(d.q, d.q), IF d.r = <<>> THEN <<>> ELSE <<1>>)

B64Div(x0, y0) ==
    With2(x0, y0, LAMBDA x, y :
        CASE x.k = "nan" \/ y.k = "nan" -> B64NaN
          [] x.k = "inf" -> IF y.k = "inf" THEN B64NaN ELSE B64Inf(x.s * y.s)
          [] y.k = "inf" -> B64Zero(x.s * y.s)
          [] B64IsZero(y) ->
                 IF B64IsZero(x) THEN B64NaN ELSE B64Inf(x.s * y.s)
          [] B64IsZero(x) -> B64Zero(x.s * y.s)
          [] OTHER ->
                 With(BDivMod(BShl(x.m, Precision + 3), y.m), LAMBDA d :
                     round(x.s * y.s, Sticky(d),
                           x.e - y.e - (Precision + 3) - 1)))

\* the sum of the finite values s1 * a * 2^e and s2 * b * 2^e, neither 0
Sum(s1, a, s2, b, e) ==
    IF s1 = s2 THEN round(s1, BAdd(a, b), e)
    ELSE IF a = b THEN B64Zero(1)
    ELSE IF BLess(a, b) THEN round(s2, BSub(b, a), e)
    ELSE round(s1, BSub(a, b), e)

B64Add(x0, y0) ==
    With2(x0, y0, LAMBDA x, y :
        CASE x.k = "nan" \/ y.k = "nan" -> B64NaN
          [] x.k = "inf" -> IF y.k = "inf" /\ y.s # x.s THEN B64NaN ELSE x
          [] y.k = "inf" -> y
          [] B64IsZero(x) /\ B64IsZero(y) ->
                 B64Zero(IF x.s = y.s THEN x.s ELSE 1)
          [] B64IsZero(x) -> y
          [] B64IsZero(y) -> x
          [] OTHER ->
                 LET e == IF x.e < y.e THEN x.e ELSE y.e
                 IN  With2(BShl(x.m, x.e - e), BShl(y.m, y.e - e),
                           LAMBDA a, b : Sum(x.s, a, y.s, b, e)))

\* the sign of a value: 0 for a zero and for NaN
B64Sign(x) == IF x.k = "nan" \/ B64IsZero(x) THEN 0 ELSE x.s

\* |x| < |y| for finite values that are not 0
MagLess(x, y) == x.e < y.e \/ (x.e = y.e /\ BLess(x.m, y.m))

\* x > y: false when either is NaN
B64Gt(x, y) ==
    CASE x.k = "nan" \/ y.k = "nan"  -> FALSE
      [] B64Sign(x) # B64Sign(y)     -> B64Sign(x) > B64Sign(y)
      [] B64Sign(x) = 0              -> FALSE
      [] x.k = "inf" \/ y.k = "inf"  ->
             IF x.s = 1 THEN x.k = "inf" /\ y.k # "inf"
             ELSE y.k = "inf" /\ x.k # "inf"
      [] OTHER -> IF x.s = 1 THEN MagLess(y, x) ELSE MagLess(x, y)

\* the value of a decimal literal n/d (0.4 is 2/5): the binary64 nearest to it
B64Lit(n, d) == B64Div(B64Int(n), B64Int(d))

\* numeric equality: false when either is NaN
B64Eq(x, y) ==
    x.k # "nan" /\ y.k # "nan" /\ ~B64Gt(x, y) /\ ~B64Gt(y, x)

MaxRanked == 2

MaxSteps == 2

\* the literals of get_index_score
ReturnWeight       == B64Lit(2, 5)
RiskWeight         == B64Lit(3, 10)
ShortHorizonFactor == B64Lit(4, 5)
LongHorizonFactor  == B64Int(1)

\* a plausible slip: the parentheses around the sum left out, so that the
\* horizon factor multiplies the last term only
get_index_score_unparenthesised(metrics, years) ==
    B64Add(B64Add(B64Mul(metrics.avg_annual_return, ReturnWeight),
                  B64Mul(B64Div(B64Int(1), B64Abs(metrics.volatility)),
                         RiskWeight)),
           B64Mul(B64Mul(B64Div(B64Int(1), B64Abs(metrics.max_drawdown)),
                         RiskWeight),
                  IF RLt(RInt(HorizonThreshold), years)
                  THEN LongHorizonFactor ELSE ShortHorizonFactor))

\* get_index_score, every operation rounded as Python rounds it
get_index_score_binary64(metrics, years) ==
    B64Mul(B64Add(B64Add(B64Mul(metrics.avg_annual_return, ReturnWeight),
                         B64Mul(B64Div(B64Int(1), B64Abs(metrics.volatility)),
                                RiskWeight)),
                  B64Mul(B64Div(B64Int(1), B64Abs(metrics.max_drawdown)),
                         RiskWeight)),
           IF RLt(RInt(HorizonThreshold), years)
           THEN LongHorizonFactor ELSE ShortHorizonFactor)

index_scores_binary64(index_metrics, years) ==
    SubSeq([i \in 1..Len(index_metrics) |->
               get_index_score_binary64(index_metrics[i].metrics, years)],
           1, Len(index_metrics))

\* max(index_scores, key=index_scores.get) on binary64 scores
RECURSIVE max_from_binary64(_, _, _)
max_from_binary64(scores, i, best) ==
    IF i > Len(scores) THEN best
    ELSE max_from_binary64(scores, i + 1,
                           IF B64Gt(scores[i], scores[best]) THEN i ELSE best)

recommend_binary64(index_metrics, years) ==
    With(index_scores_binary64(index_metrics, years), LAMBDA scores :
        [status            |-> "ok",
         recommended_index |->
             index_metrics[max_from_binary64(scores, 2, 1)].name,
         index_scores      |-> scores])

\* 2^-50: the step between the returns of the model
ReturnStep == round(1, <<1>>, -50)

\* the metrics of a candidate: a return of 0.5 and up to MaxSteps steps
\* more, with a volatility of 0.2 and a max_drawdown of -0.2; a return of
\* 1.2 with a max_drawdown of -0.25; and a volatility of 0
CandidateMetricsBinary64 ==
    {[avg_annual_return |-> B64Add(B64Lit(1, 2), B64Mul(B64Int(k), ReturnStep)),
      volatility        |-> B64Lit(1, 5),
      max_drawdown      |-> B64Lit(-1, 5)] : k \in 0..MaxSteps}
      \cup {[avg_annual_return |-> B64Lit(6, 5), volatility |-> B64Lit(1, 5),
              max_drawdown |-> B64Lit(-1, 4)],
             [avg_annual_return |-> B64Lit(1, 2), volatility |-> B64Zero(1),
              max_drawdown |-> B64Lit(-1, 5)]}

\* index_metrics holds the first n indices, in the order of INDICES
InitBinary64 ==
    /\ pc = "call"
    /\ fn = "recommend"
    /\ ret = Pending
    /\ stdin = <<>>
    /\ stdout = <<>>
    /\ locals = NoLocals
    /\ \E n \in 1..MaxRanked :
         \E metrics \in [1..n -> CandidateMetricsBinary64] :
             arg \in [index_metrics : {Candidates(SubSeq(INDICES, 1, n), metrics)},
                      years : GoalYears]

\* lines 193-203 of run_cli_app (79-89 of run_streamlit_app)
RecommendBinary64 ==
    /\ pc = "call"
    /\ fn = "recommend"
    /\ ret' = recommend_binary64(arg.index_metrics, arg.years)
    /\ pc' = "done"
    /\ UNCHANGED <<fn, arg, cli>>

NextBinary64 == RecommendBinary64

SpecBinary64 == InitBinary64 /\ [][NextBinary64]_vars

-----------------------------------------------------------------------------
(* Claims about calculate_metrics *)

MetricsDone == pc = "done" /\ fn = "calculate_metrics"

\* the distinct calendar years of a series, in order
DistinctYears(hist) == {hist[i].year : i \in 1..Len(hist)}

\* C1: for every non-empty series of positive prices the max_drawdown of
\* calculate_metrics, (min - max) / max over the whole series, lies in [-1, 0]
C1_MaxDrawdownInRange ==
    MetricsDone =>
        /\ IsFinite(ret.max_drawdown)
        /\ RLe(RInt(-1), ret.max_drawdown.v)
        /\ RLe(ret.max_drawdown.v, RInt(0))

\* a series whose prices differ: the drawdown is strictly negative
C1_Witness ==
    /\ MetricsDone
    /\ SeqMin(Closes(arg.hist_data)) < SeqMax(Closes(arg.hist_data))
    /\ RLt(ret.max_drawdown.v, RInt(0))

\* C4 (as claimed): on a series whose points fall in fewer than 2 distinct
\* calendar years calculate_metrics signals InsufficientHistory and returns
\* no record with an undefined (NaN) avg_annual_return or volatility
C4_InsufficientHistorySignalled ==
    (MetricsDone /\ Cardinality(DistinctYears(arg.hist_data)) < 2) =>
        /\ ret.status = "InsufficientHistory"
        /\ ~(ret.status = "ok" /\ (IsNaN(ret.avg_annual_return) \/ IsNaN(ret.volatility)))

\* the i-th distinct year of a series and the last price observed in it
NthYear(hist, i) ==
    CHOOSE y \in DistinctYears(hist) :
        Cardinality({z \in DistinctYears(hist) : z <= y}) = i

YearClose(hist, y) ==
    LET In == {j \in 1..Len(hist) : hist[j].year = y}
    IN  hist[CHOOSE j \in In : \A l \in In : l <= j].Close

\* the mean the claim describes: k-1 values, one per consecutive pair of
\* distinct years
ClaimedAvgReturn(hist) ==
    LET k  == Cardinality(DistinctYears(hist))
        rs == [i \in 1..(k - 1) |->
                 RSub(Rat(YearClose(hist, NthYear(hist, i + 1)),
                          YearClose(hist, NthYear(hist, i))), RInt(1))]
    IN  RDiv(RSum(rs), RInt(k - 1))

\* the close a calendar year ends on: the Close of the last point observed in
\* that year or, for a year without a point, before it
CarriedClose(hist, y) ==
    LET Upto == {j \in 1..Len(hist) : hist[j].year <= y}
    IN  hist[CHOOSE j \in Upto : \A l \in Upto : l <= j].Close

AvgOverCalendarYears(hist) ==
    LET y0 == hist[1].year
        y1 == hist[Len(hist)].year
        rs == [i \in 1..(y1 - y0) |->
                 RSub(Rat(CarriedClose(hist, y0 + i),
                          CarriedClose(hist, y0 + i - 1)), RInt(1))]
    IN  RDiv(RSum(rs), RInt(y1 - y0))

\* C8 (amended): for a series spanning k >= 2 distinct calendar years
\* avg_annual_return is the arithmetic mean of one value per calendar year
\* after the first up to the last, (close of the year / close of the year
\* before) - 1, the close of a year being the last price observed in it or,
\* for a year without a point, the close of the year before; these are the
\* k-1 values of the claim exactly when no calendar year between the first
\* and the last is without a point; no other price and no undefined
\* first-year entry contributes
C8_AvgIsMeanOverCalendarYears ==
    (MetricsDone /\ Cardinality(DistinctYears(arg.hist_data)) >= 2) =>
        /\ IsFinite(ret.avg_annual_return)
        /\ REq(ret.avg_annual_return.v, AvgOverCalendarYears(arg.hist_data))
        /\ (\A y \in arg.hist_data[1].year..arg.hist_data[Len(arg.hist_data)].year :
                y \in DistinctYears(arg.hist_data)) =>
              REq(ret.avg_annual_return.v, ClaimedAvgReturn(arg.hist_data))

\* two consecutive years, two points with different prices in the first
C8_Witness ==
    /\ MetricsDone
    /\ Len(arg.hist_data) = 3
    /\ Cardinality(DistinctYears(arg.hist_data)) = 2
    /\ arg.hist_data[1].year = arg.hist_data[2].year
    /\ arg.hist_data[1].Close # arg.hist_data[2].Close
    /\ arg.hist_data[3].year = arg.hist_data[2].year + 1
    /\ IsFinite(ret.avg_annual_return)
    /\ REq(ret.avg_annual_return.v,
           RSub(Rat(arg.hist_data[3].Close, arg.hist_data[2].Close), RInt(1)))

\* C8 (as claimed): for a series spanning k >= 2 distinct calendar years
\* avg_annual_return is the arithmetic mean of exactly k-1 values, the i-th
\* being (last price of the (i+1)-th distinct year / last price of the i-th
\* distinct year) - 1
C8_AvgIsMeanOverDistinctYears ==
    (MetricsDone /\ Cardinality(DistinctYears(arg.hist_data)) >= 2) =>
        /\ IsFinite(ret.avg_annual_return)
        /\ REq(ret.avg_annual_return.v, ClaimedAvgReturn(arg.hist_data))

-----------------------------------------------------------------------------
(* Claims about calculate_investment_needs *)

PlanDone == pc = "done" /\ fn = "calculate_investment_needs"

\* C2 (as claimed): with annual_return = 0 (goal_amount > 0, years > 0) the
\* call ends in the ZeroReturnUndefined error: no schedule, no uncontrolled
\* arithmetic error, no infinite or NaN amount
C2_ZeroReturnUndefined ==
    (PlanDone /\ RSign(arg.annual_return) = 0) =>
        ret.status = "ZeroReturnUndefined"

\* annual_return and horizon valid in the sense of the claim: r # 0 and not a
\* negative r with a non-integer horizon
ValidReturn(a) ==
    /\ RSign(a.annual_return) # 0
    /\ ~(RSign(a.annual_return) < 0 /\ a.years[2] # 1)

NonNegative(x) == IsFinite(x) /\ RSign(x.v) >= 0

AmountsNonNegative ==
    /\ ret.status = "ok"
    /\ NonNegative(ret.yearly)
    /\ NonNegative(ret.monthly)
    /\ NonNegative(ret.weekly)

\* C7 (as claimed): for goal_amount > 0, years > 0 and every valid r the
\* schedule yearly = goal * r / ((1+r)^years - 1), monthly = yearly / 12,
\* weekly = yearly / 52 has its three amounts >= 0, r <= -1 included
C7_AmountsNonNegative ==
    (PlanDone /\ ValidReturn(arg)) => AmountsNonNegative

\* r <= -2 with an even horizon: (1+r)^years >= 1 while r < 0
EvenHorizonBelowMinusTwo(a) ==
    /\ RLe(a.annual_return, RInt(-2))
    /\ a.years[2] = 1
    /\ a.years[1] % 2 = 0

\* C7 (amended): the same for every valid r except r <= -2 with an even
\* horizon; the schedule is then returned with yearly = goal * r /
\* ((1+r)^years - 1) >= 0, monthly = yearly / 12 and weekly = yearly / 52
C7_AmountsNonNegativeAmended ==
    (PlanDone /\ ValidReturn(arg) /\ ~EvenHorizonBelowMinusTwo(arg)) =>
        /\ AmountsNonNegative
        /\ arg.years[2] = 1 =>
              REq(ret.yearly.v,
                  RDiv(RMul(RInt(arg.goal_amount), arg.annual_return),
                       RSub(RPow(RAdd(RInt(1), arg.annual_return), arg.years[1]),
                            RInt(1))))
        /\ REq(RMul(ret.monthly.v, RInt(12)), ret.yearly.v)
        /\ REq(RMul(ret.weekly.v, RInt(52)), ret.yearly.v)

\* a return below -1 with an odd horizon gives a positive schedule
C7_Witness ==
    /\ PlanDone
    /\ RLt(arg.annual_return, RInt(-1))
    /\ arg.years[2] = 1
    /\ arg.years[1] % 2 = 1
    /\ AmountsNonNegative
    /\ RSign(ret.yearly.v) > 0

-----------------------------------------------------------------------------
(* Claims about the ranking *)

RankDone == pc = "done" /\ fn = "recommend"

ZeroRisk(m) ==
    \/ IsFinite(m.volatility) /\ RSign(m.volatility.v) = 0
    \/ IsFinite(m.max_drawdown) /\ RSign(m.max_drawdown.v) = 0

\* C3 (as claimed): ranking a candidate set in which a candidate has
\* volatility exactly 0 or max_drawdown exactly 0 ends in the
\* DivisionUndefined error: no recommendation, no score turned into infinity
C3_DivisionUndefined ==
    (RankDone /\ \E i \in 1..Len(arg.index_metrics) : ZeroRisk(arg.index_metrics[i].metrics)) =>
        /\ ret.status = "DivisionUndefined"
        /\ \A i \in 1..Len(ret.index_scores) : ret.index_scores[i].k \notin {"inf", "ninf"}

\* the candidates whose score is the maximum: no score is greater, and the
\* score compares with every other (no NaN among them)
IsMaximum(scores, i) == \A j \in 1..Len(scores) : FGe(scores[i], scores[j])

TiedMaximum(scores) ==
    \E i, j \in 1..Len(scores) :
        i # j /\ FEq(scores[i], scores[j]) /\ IsMaximum(scores, i)

\* C5: when two candidates have exactly equal scores and that
\* score is the maximum, the recommended one is the lexically smaller,
\* whatever the order the candidates came in
C5_TieLexicallySmaller ==
    (/\ RankDone
     /\ TiedMaximum(ret.index_scores)
     /\ \A i \in 1..Len(ret.index_scores) : IsFinite(ret.index_scores[i])) =>
        \A i \in 1..Len(arg.index_metrics) :
            IsMaximum(ret.index_scores, i) =>
                ~LexLess(arg.index_metrics[i].name, ret.recommended_index)

\* C6: with exactly one candidate the recommendation is that candidate, for
\* every horizon and for every metrics of the candidate
C6_SingletonRecommended ==
    (RankDone /\ Len(arg.index_metrics) = 1) =>
        /\ ret.status = "ok"
        /\ ret.recommended_index = arg.index_metrics[1].name

\* a single candidate with an infinite score, horizon not above the threshold
C6_Witness ==
    /\ RankDone
    /\ Len(arg.index_metrics) = 1
    /\ RLe(arg.years, RInt(HorizonThreshold))
    /\ ret.index_scores[1].k = "inf"
    /\ ret.recommended_index = arg.index_metrics[1].name

-----------------------------------------------------------------------------
(* Claims about linear_regression_forecast *)

ForecastDone == pc = "done" /\ fn = "linear_regression_forecast"

\* the positions of a frame that have a price
Priced(df) == {i \in 1..Len(df) : ~IsNaN(df[i].Price)}

\* C9: on a series with fewer than 2 points left once the positions with a
\* missing price are removed the forecast is empty, for every periods value
\* and without an error; with at least 2 such points it is not empty
C9_EmptyBelowTwoPoints ==
    ForecastDone =>
        /\ ret.status = "ok"
        /\ Cardinality(Priced(arg.df)) < 2 => ret.forecast = <<>>
        /\ Cardinality(Priced(arg.df)) >= 2 => Len(ret.forecast) >= 1

\* the i-th priced position of a frame (i = 1..n)
NthPriced(df, i) ==
    CHOOSE p \in Priced(df) : Cardinality({q \in Priced(df) : q <= p}) = i

\* the least-squares line through (i - 1, price of the i-th priced point),
\* by the normal equations: slope (n Sxy - Sx Sy) / (n Sxx - Sx^2)
LeastSquaresAt(df, x) ==
    LET n   == Cardinality(Priced(df))
        y   == [i \in 1..n |-> df[NthPriced(df, i)].Price.v]
        Sx  == RSum([i \in 1..n |-> RInt(i - 1)])
        Sy  == RSum(y)
        Sxy == RSum([i \in 1..n |-> RMul(RInt(i - 1), y[i])])
        Sxx == RSum([i \in 1..n |-> RInt((i - 1) * (i - 1))])
        b   == RDiv(RSub(RMul(RInt(n), Sxy), RMul(Sx, Sy)),
                    RSub(RMul(RInt(n), Sxx), RMul(Sx, Sx)))
        a   == RDiv(RSub(Sy, RMul(b, Sx)), RInt(n))
    IN  RAdd(a, RMul(b, RInt(x)))

\* the priced points go up by the same step d from one to the next
LinearWithStep(df, d) ==
    LET n == Cardinality(Priced(df))
    IN  \A i \in 1..(n - 1) :
            RSub(df[NthPriced(df, i + 1)].Price.v, df[NthPriced(df, i)].Price.v) = d

\* C10: for n >= 2 priced points and periods = p > 0 the forecast has exactly
\* p points, the j-th dated j days after the last observed date, whatever the
\* spacing of the dates, and valued at the least-squares line through
\* (0..n-1, price) at n-1+j; a linear series of step d continues as
\* last price + j*d, and 10, 12, 14, 16, 18 with periods = 2 gives 20, 22
C10_ForecastOnLeastSquaresLine ==
    (ForecastDone /\ Cardinality(Priced(arg.df)) >= 2) =>
        LET n    == Cardinality(Priced(arg.df))
            last == arg.df[NthPriced(arg.df, n)]
        IN  /\ Len(ret.forecast) = arg.days
            /\ \A j \in 1..arg.days :
                 /\ ret.forecast[j].Date = last.Date + j
                 /\ IsFinite(ret.forecast[j].Predicted_Price)
                 /\ ret.forecast[j].Predicted_Price.v
                      = LeastSquaresAt(arg.df, n - 1 + j)
                 /\ \A d \in (-MaxPrice)..MaxPrice :
                      LinearWithStep(arg.df, RInt(d)) =>
                        ret.forecast[j].Predicted_Price.v
                          = RAdd(last.Price.v, RInt(j * d))
            /\ (arg.df = ExampleFrame /\ arg.days = 2) =>
                 /\ ret.forecast[1].Predicted_Price.v = RInt(20)
                 /\ ret.forecast[2].Predicted_Price.v = RInt(22)

-----------------------------------------------------------------------------
(* Claims about run_cli_app *)

\* the prompt is about to read a line
AtPrompt == fn = "run_cli_app" /\ pc = "prompt" /\ stdin # <<>>

\* a well-formed date at least 1 year (365 days) after today
AYearAhead(line) == line.kind = "date" /\ line.day >= OneYear

\* metrics or a schedule have been computed
Computed(l) == Bound(l, "index_metrics") \/ Bound(l, "investment_needs")

\* C11: in run_cli_app, whatever the target-date inputs are,
\* calculate_investment_needs is invoked only once a well-formed date at
\* least 365 days after today has been accepted; a malformed date or a date
\* less than 365 days ahead leads back to the prompt with no metrics and no
\* schedule computed; a date exactly 365 days ahead is accepted as any date
\* at least 365 days ahead is.
C11_PlanOnlyAfterDateAYearAhead ==
    [][/\ AtPrompt /\ AYearAhead(Head(stdin))
            => pc' = "analyze" /\ locals'.goal_date = Head(stdin).day
       /\ AtPrompt /\ ~AYearAhead(Head(stdin))
            => pc' = "prompt" /\ ~Computed(locals')
       /\ fn = "run_cli_app" /\ Bound(locals', "investment_needs")
            => /\ Bound(locals', "goal_date")
               /\ locals'.goal_date >= OneYear
               /\ \E i \in 1..Len(arg.stdin) :
                      /\ arg.stdin[i].kind = "date"
                      /\ arg.stdin[i].day = locals'.goal_date
      ]_vars

-----------------------------------------------------------------------------
(* Claims about the ranking in binary64 *)

AllFinite(scores) == \A i \in 1..Len(scores) : B64IsFinite(scores[i])

\* two candidates whose scores differ in s1 have equal scores in s2
RoundedTogether(s1, s2) ==
    \E i, j \in 1..Len(s1) : ~B64Eq(s1[i], s1[j]) /\ B64Eq(s2[i], s2[j])

\* C12 as claimed: for every candidate set with finite scores and every two
\* horizons (either side of the threshold of 10 years, and exactly 10), max
\* over get_index_score selects the same identifier.
C12_SameForEveryHorizon ==
    RankDone =>
        \A h \in GoalYears :
            LET other == recommend_binary64(arg.index_metrics, h)
            IN  AllFinite(ret.index_scores) /\ AllFinite(other.index_scores)
                    => other.recommended_index = ret.recommended_index

\* C12 as amended: for every candidate set with finite scores and every two
\* horizons, max over get_index_score selects the same identifier unless two
\* candidates whose scores differ at one of the horizons have equal scores at
\* the other (the product with 0.8, rounded, can be the same for two
\* different scores).
C12_SameUnlessRoundedTogether ==
    RankDone =>
        \A h \in GoalYears :
            LET other == recommend_binary64(arg.index_metrics, h)
            IN  (/\ AllFinite(ret.index_scores) /\ AllFinite(other.index_scores)
                 /\ ~RoundedTogether(ret.index_scores, other.index_scores)
                 /\ ~RoundedTogether(other.index_scores, ret.index_scores))
                    => other.recommended_index = ret.recommended_index

\* a ranking for a short horizon whose second candidate wins, and whose
\* scores for the long horizon are finite, differ, and are not rounded
\* together by the short horizon's factor
C12_Witness ==
    /\ RankDone
    /\ Len(arg.index_metrics) = 2
    /\ arg.years = RInt(HorizonThreshold)
    /\ ret.recommended_index = INDICES[2]
    /\ LET other == recommend_binary64(arg.index_metrics,
                                       RInt(HorizonThreshold + 1))
       IN  /\ AllFinite(ret.index_scores) /\ AllFinite(other.index_scores)
           /\ ~B64Eq(other.index_scores[1], other.index_scores[2])
           /\ ~B64Eq(ret.index_scores[1], other.index_scores[1])
           /\ ~RoundedTogether(other.index_scores, ret.index_scores)
           /\ other.recommended_index = INDICES[2]

=============================================================================
